---------------------------- MODULE Spec2Model ----------------------------
(***************************************************************************)
(* Model of crosspop.py: pairwise chi-square cross tables of a survey CSV,  *)
(* Benjamini-Hochberg correction, Cramer's V, strength labels,             *)
(* recommendations, workbook sheets, heatmaps and the consolidated summary.*)
(*                                                                         *)
(* Numbers.  The floats of the program are modelled exactly, as records    *)
(* [cls, num, den, rad]: cls is "fin", "nan" or "inf"; a finite value is   *)
(* num/den, or its square root when rad is TRUE (np.sqrt is kept           *)
(* symbolic).  The float literals 0.05, 0.10, ... are integer hundredths.  *)
(* Text.  Column names are sequences of one-character strings, so that     *)
(* slicing and character replacement are computed; the accented message    *)
(* texts of the source are written in plain ASCII.                         *)
(***************************************************************************)
EXTENDS Integers, Sequences, FiniteSets, TLC

\* ------------------------------------------------------------------ bounds
MaxLinhas == 3   \* rows of an enumerated dataset
MaxObs    == 5   \* observations of a directly drawn pair of columns
MaxCat    == 5   \* largest category count handed to the classifiers
MaxV      == 52  \* largest V (hundredths) handed to the classifiers
NDelta    == 2   \* sample sizes drawn around the small-sample limit
MaxP      == 3   \* longest raw p-value vector handed to the corrector
NumArquivos == 2 \* files matched by glob("csv/*.csv")

\* ------------------------------------------------------- program constants
ALPHA       == 5    \* 0.05, in hundredths
AMOSTRA_MIN == 30   \* n < 30: small sample
PREFIXO     == 15   \* col[:15]
LIMITE_ABA  == 31   \* nome[:31]

\* ------------------------------------------------------------- arithmetic
Min2(a, b) == IF a <= b THEN a ELSE b
Max2(a, b) == IF a >= b THEN a ELSE b
Abs(a) == IF a < 0 THEN -a ELSE a

RECURSIVE Gcd(_, _)
Gcd(a, b) == IF b = 0 THEN a ELSE Gcd(b, a % b)

RECURSIVE ProdSeq(_)
ProdSeq(s) == IF s = <<>> THEN 1 ELSE Head(s) * ProdSeq(Tail(s))

\* A set of integers as the ascending sequence of its elements.
RECURSIVE Ordenado(_)
Ordenado(S) ==
    IF S = {} THEN <<>>
    ELSE LET m == CHOOSE x \in S : \A y \in S : x <= y
         IN  <<m>> \o Ordenado(S \ {m})

NaN == [cls |-> "nan", num |-> 0, den |-> 1, rad |-> FALSE]
Inf == [cls |-> "inf", num |-> 1, den |-> 1, rad |-> FALSE]

\* The finite value a/b (b > 0), in lowest terms.
Frac(a, b) ==
    LET g == Gcd(Abs(a), b)
    IN  [cls |-> "fin", num |-> a \div g, den |-> b \div g, rad |-> FALSE]

isnan(x) == x.cls = "nan"

\* x / d for a float x and an integer d, as numpy divides: a zero divisor
\* gives inf (nan for 0/0) and a warning, never an exception.
Div(x, d) ==
    IF x.cls # "fin" THEN x
    ELSE IF d = 0 THEN (IF x.num = 0 THEN NaN ELSE Inf)
    ELSE Frac(x.num, x.den * d)

\* np.sqrt, kept symbolic.
Sqrt(x) == IF x.cls = "fin" THEN [x EXCEPT !.rad = TRUE] ELSE x

\* floor(10000 * num / den) of a finite value, without a large product.
Cent4(x) ==
    LET q0 == x.num \div x.den
        r1 == (x.num % x.den) * 100
        q1 == r1 \div x.den
        r2 == (r1 % x.den) * 100
        q2 == r2 \div x.den
    IN  q0 * 10000 + q1 * 100 + q2

\* x < c/100 for a float x and a literal of c hundredths; comparisons with
\* nan are false.
Menor(x, c) ==
    CASE x.cls = "nan" -> FALSE
      [] x.cls = "inf" -> FALSE
      [] x.rad         -> Cent4(x) < c * c
      [] OTHER         -> x.num * 100 < c * x.den

\* x <= y for finite, non-radical floats.
MenorIgual(x, y) == x.num * y.den <= y.num * x.den

\* ------------------------------------------------------ limpar_nome_sheet
INVAL == {"[", "]", ":", "*", "?", "/", "\\"}

Prefixo(s, n) == SubSeq(s, 1, Min2(n, Len(s)))

limpar_nome_sheet(nome) ==
    Prefixo([i \in 1..Len(nome) |-> IF nome[i] \in INVAL THEN " " ELSE nome[i]],
            LIMITE_ABA)

\* The identifier of a pair: limpar_nome_sheet(f"{col1[:15]}_{col2[:15]}").
NomeAba(col1, col2) ==
    limpar_nome_sheet(Prefixo(col1, PREFIXO) \o <<"_">> \o Prefixo(col2, PREFIXO))

\* ------------------------------------------------------------ pd.crosstab
NA == 0   \* a missing cell of the CSV (NaN after read_csv)

\* pd.crosstab(xs, ys): rows with a missing value in either column are
\* dropped; the labels are the values observed in the remaining rows.
Crosstab(xs, ys) ==
    LET validas == {r \in 1..Len(xs) : xs[r] # NA /\ ys[r] # NA}
        lin == {xs[r] : r \in validas}
        col == {ys[r] : r \in validas}
    IN  [lin |-> lin, col |-> col,
         cel |-> [c \in lin \X col |->
                    Cardinality({r \in validas : xs[r] = c[1] /\ ys[r] = c[2]})]]

RECURSIVE Soma(_, _)
Soma(f, S) ==
    IF S = {} THEN 0
    ELSE LET x == CHOOSE y \in S : TRUE IN f[x] + Soma(f, S \ {x})

Linhas(t)  == Cardinality(t.lin)              \* tabela.shape[0]
Colunas(t) == Cardinality(t.col)              \* tabela.shape[1]
Tamanho(t) == Linhas(t) * Colunas(t)          \* tabela.size
Total(t)   == Soma(t.cel, t.lin \X t.col)     \* tabela.sum().sum()
SomaLinha(t, a)  == Soma(t.cel, {a} \X t.col)
SomaColuna(t, b) == Soma(t.cel, t.lin \X {b})

\* ------------------------------------------------------- chi2_contingency
\* scipy.stats.chi2_contingency(tabela) with its defaults: Pearson's
\* statistic against the expected counts R*C/n, with Yates' continuity
\* correction when dof = 1, and chi2 = 0.0 when dof = 0.
\* With d = |O*n - R*C| each cell contributes a^2 / (4*n*R*C), where
\* a = 2*d, or max(2*d - n, 0) under the correction.
GrausLiberdade(t) == Tamanho(t) - (Linhas(t) + Colunas(t)) + 1

Chi2(t) ==
    LET n   == Total(t)
        dof == GrausLiberdade(t)
        PR  == ProdSeq([i \in 1..Linhas(t) |-> SomaLinha(t, Ordenado(t.lin)[i])])
        PC  == ProdSeq([j \in 1..Colunas(t) |-> SomaColuna(t, Ordenado(t.col)[j])])
        termo == [c \in t.lin \X t.col |->
                    LET R == SomaLinha(t, c[1])
                        C == SomaColuna(t, c[2])
                        d == Abs(t.cel[c] * n - R * C)
                        a == IF dof = 1 THEN Max2(2 * d - n, 0) ELSE 2 * d
                    IN  a * a * (PR \div R) * (PC \div C)]
    IN  IF dof = 0 THEN Frac(0, 1)
        ELSE Frac(Soma(termo, t.lin \X t.col), 4 * n * PR * PC)

\* --------------------------------------------------------------- the code
\* Mutant: the phi coefficient, without the min(r, k) - 1 factor.
calcular_v_cramer_phi(chi2, n, r, k) ==
    IF Min2(r, k) > 1 THEN Sqrt(Div(chi2, n)) ELSE NaN

\* calcular_v_cramer
calcular_v_cramer(chi2, n, r, k) ==
    IF Min2(r, k) > 1 THEN Sqrt(Div(chi2, n * (Min2(r, k) - 1))) ELSE NaN

Limites(categorias) ==
    IF categorias <= 2 THEN <<10, 30, 50>>
    ELSE IF categorias <= 4 THEN <<7, 21, 35>>
    ELSE <<6, 17, 29>>

\* Mutant: "<=" at each bound.
classificar_forca_le(v, categorias) ==
    IF isnan(v) THEN "Nao aplicavel"
    ELSE LET limites == Limites(categorias)
         IN  IF Menor(v, limites[1] + 1) THEN "Fraca"
             ELSE IF Menor(v, limites[2] + 1) THEN "Moderada"
             ELSE IF Menor(v, limites[3] + 1) THEN "Forte"
             ELSE "Muito forte"

\* classificar_forca
classificar_forca(v, categorias) ==
    IF isnan(v) THEN "Nao aplicavel"
    ELSE LET limites == Limites(categorias)
         IN  IF Menor(v, limites[1]) THEN "Fraca"
             ELSE IF Menor(v, limites[2]) THEN "Moderada"
             ELSE IF Menor(v, limites[3]) THEN "Forte"
             ELSE "Muito forte"

AVISO == " (!) Amostra pequena, interpretar com cautela"

\* Mutant: the warning at n <= 30.
gerar_recomendacao_le(p_aj, v_cramer, n, linhas, colunas) ==
    IF isnan(v_cramer) \/ isnan(p_aj)
    THEN <<"Nao aplicavel (dados insuficientes)">>
    ELSE IF ~Menor(p_aj, ALPHA)
    THEN <<"Nao significativo: sem associacao relevante">>
    ELSE LET limites == Limites(Min2(linhas, colunas))
             recomendacao ==
                 IF Menor(v_cramer, limites[1])
                 THEN <<"Associacao significativa, mas fraca">>
                 ELSE IF Menor(v_cramer, limites[2])
                 THEN <<"Associacao significativa moderada - vale explorar em graficos e texto">>
                 ELSE IF Menor(v_cramer, limites[3])
                 THEN <<"Associacao significativa forte - destacar na analise">>
                 ELSE <<"Associacao muito forte - resultado chave para destaque">>
         IN  IF n <= AMOSTRA_MIN THEN Append(recomendacao, AVISO) ELSE recomendacao

\* gerar_recomendacao: the text, as the sequence of the pieces it is built of
\* (recomendacao += ... appends a piece).
gerar_recomendacao(p_aj, v_cramer, n, linhas, colunas) ==
    IF isnan(v_cramer) \/ isnan(p_aj)
    THEN <<"Nao aplicavel (dados insuficientes)">>
    ELSE IF ~Menor(p_aj, ALPHA)
    THEN <<"Nao significativo: sem associacao relevante">>
    ELSE LET limites == Limites(Min2(linhas, colunas))
             recomendacao ==
                 IF Menor(v_cramer, limites[1])
                 THEN <<"Associacao significativa, mas fraca">>
                 ELSE IF Menor(v_cramer, limites[2])
                 THEN <<"Associacao significativa moderada - vale explorar em graficos e texto">>
                 ELSE IF Menor(v_cramer, limites[3])
                 THEN <<"Associacao significativa forte - destacar na analise">>
                 ELSE <<"Associacao muito forte - resultado chave para destaque">>
         IN  IF n < AMOSTRA_MIN THEN Append(recomendacao, AVISO) ELSE recomendacao

\* ---------------------------------------------------------- multipletests
\* statsmodels' multipletests(pvals, alpha=0.05, method="fdr_bh"), second
\* result: sort ascending, p * m / rank, running minimum from the largest
\* rank down, clip at 1, back to the input order.
Posto(ps, i) ==
    1 + Cardinality({j \in 1..Len(ps) :
                       \/ ~MenorIgual(ps[i], ps[j])
                       \/ (ps[j] = ps[i] /\ j < i)})

MinFrac(S) == CHOOSE x \in S : \A y \in S : MenorIgual(x, y)

fdr_bh(ps) ==
    LET m == Len(ps)
        bruto == [i \in 1..m |-> Frac(ps[i].num * m, ps[i].den * Posto(ps, i))]
    IN  [i \in 1..m |->
           LET acumulado == MinFrac({bruto[j] : j \in {j \in 1..m : Posto(ps, j) >= Posto(ps, i)}})
           IN  IF MenorIgual(acumulado, Frac(1, 1)) THEN acumulado ELSE Frac(1, 1)]

\* Mutant: the p-values are sorted before the correction and the result is
\* left in sorted order.
CorrigirPValores_ordenado(p_vals_chi2) ==
    IF p_vals_chi2 # <<>>
    THEN fdr_bh([k \in 1..Len(p_vals_chi2) |->
                    p_vals_chi2[CHOOSE i \in 1..Len(p_vals_chi2) : Posto(p_vals_chi2, i) = k]])
    ELSE <<>>

\* Step 2 of gerar_crosstables: the correction of the collected p-values.
CorrigirPValores(p_vals_chi2) ==
    IF p_vals_chi2 # <<>> THEN fdr_bh(p_vals_chi2) ELSE <<>>

\* ------------------------------------------------------------------ state
VARIABLES
    entrada,     \* which survey files csv/ holds: "dados" or "nomes"
    lote,        \* the module-level loop: "executando", "concluido", "abortado"
    arquivo,     \* index of the file the loop is at
    estado,      \* per file: "pendente", "processando", "ok", "falhou"
    pc,          \* position inside gerar_crosstables
    df,          \* the data frame, first column dropped
    par,         \* index of the pair the current pass is at
    p_vals_chi2, info_chi2, p_adj_chi2, idx_c, resultados_consolidados,
    significancia, forca,   \* locals assigned inside the pass-2 loop
    sheets,      \* the workbook: sheet name -> title and cells
    heatmaps,    \* the image files written: <<folder, name>>
    resumo,      \* the consolidated summary file
    chamada      \* the last direct call of a helper: function, arguments, result

vars == <<entrada, lote, arquivo, estado, pc, df, par, p_vals_chi2, info_chi2,
          p_adj_chi2, idx_c, resultados_consolidados, significancia, forca,
          sheets, heatmaps, resumo, chamada>>

locais == <<df, par, p_vals_chi2, info_chi2, p_adj_chi2, idx_c,
            resultados_consolidados, significancia, forca>>
saidas == <<sheets, heatmaps, resumo>>

\* ----------------------------------------------------------------- inputs
Valores == {NA, 1, 2}

Rep(x, n) == [i \in 1..n |-> x]

\* A CSV row: the timestamp, then one answer per question.
Linha(a, b, c) == <<1, a, b, c>>
LinhasPossiveis == {Linha(a, b, c) : a \in Valores, b \in Valores, c \in Valores}
Cod(l) == l[2] * 9 + l[3] * 3 + l[4]

\* The row sequences of length n, one per multiset of rows (the cross
\* tables count rows and do not depend on their order).
Conjuntos(n) ==
    {s \in [1..n -> LinhasPossiveis] : \A i \in 1..(n - 1) : Cod(s[i]) <= Cod(s[i + 1])}

NomesPadrao == << <<"t">>, <<"a">>, <<"b">>, <<"c">> >>

\* Larger surveys: a weak, a strong and a very strong 2 x 2 association
\* between the first two questions; and one whose first two questions
\* were never answered together, while each has a 2 x 2 table with the
\* third.
Exemplos ==
    { Rep(Linha(1, 1, 1), 4) \o Rep(Linha(1, 2, 1), 2)
        \o Rep(Linha(2, 1, 1), 2) \o Rep(Linha(2, 2, 2), 3),
      Rep(Linha(1, 1, 1), 3) \o Rep(Linha(2, 2, NA), 1),
      Rep(Linha(1, 1, 1), 2) \o Rep(Linha(2, 2, 2), 2),
      <<Linha(1, NA, 1), Linha(2, NA, 2)>>
        \o Rep(Linha(NA, 1, 1), 2) \o Rep(Linha(NA, 2, 2), 1) }

CsvDados ==
    {[colunas |-> NomesPadrao, linhas |-> l] :
        l \in (UNION {Conjuntos(n) : n \in 0..MaxLinhas}) \cup Exemplos}

\* Question names that share their first 15 characters, or differ only in
\* characters that limpar_nome_sheet replaces.
NomesPergunta ==
    {Rep("q", n) \o <<c>> : n \in {0, PREFIXO - 1, PREFIXO}, c \in {"x", "y", "/", ":"}}

CsvNomes ==
    {[colunas |-> <<<<"t">>, n[1], n[2], n[3]>>, linhas |-> l] :
        n \in {m \in NomesPergunta \X NomesPergunta \X NomesPergunta :
                 m[1] # m[2] /\ m[1] # m[3] /\ m[2] # m[3]},
        l \in {<<Linha(1, 1, 1), Linha(2, 2, 1), Linha(2, 1, 2)>>,
               <<Linha(1, NA, 1), Linha(NA, 2, 2)>>}}

\* The contents a file of csv/ may have.
Csvs(e) == IF e = "dados" THEN CsvDados ELSE CsvNomes

SemDf == [colunas |-> <<>>, linhas |-> <<>>]
SemChamada == [fn |-> "nenhuma"]
SemResumo == [escrito |-> FALSE, linhas |-> <<>>]
SemAbas == [n \in {} |-> 0]

\* -------------------------------------------------------- data frame views
Coluna(d, c) == [r \in 1..Len(d.linhas) |-> d.linhas[r][c]]
Tabela(d, c1, c2) == Crosstab(Coluna(d, c1), Coluna(d, c2))   \* pd.crosstab(df[col1], df[col2])

\* itertools.combinations(df.columns, 2), as column positions.
Pares(d) ==
    LET n == Len(d.colunas)
        S == {q \in (1..n) \X (1..n) : q[1] < q[2]}
        pos(q) == 1 + Cardinality({o \in S : o[1] < q[1] \/ (o[1] = q[1] /\ o[2] < q[2])})
    IN  [k \in 1..Cardinality(S) |-> CHOOSE q \in S : pos(q) = k]

\* The p-value of chi2_contingency.  The survival function of the
\* chi-square distribution is not rational: chi2 = 0 (and dof = 0) gives
\* p = 1, and a positive statistic gives some p < 1, any value of the grid.
PGrade == {1, 4, 50}
PValores(chi2, dof) ==
    IF dof = 0 \/ chi2.num = 0 THEN {Frac(1, 1)} ELSE {Frac(k, 100) : k \in PGrade}

\* Mutant: the two greens exchanged.
Formato_trocado(sig, frc) ==
    IF sig = "unbound" THEN "nenhum"
    ELSE IF sig = "Sim"
    THEN IF frc \in {"Moderada", "Forte", "Muito forte"} THEN "verde_claro"
         ELSE IF frc = "Fraca" THEN "verde"
         ELSE "nenhum"
    ELSE "nenhum"

\* The cell format chosen in step 4 from the locals significancia and
\* forca; an unbound local raises NameError, which the bare except turns
\* into a write without format.
Formato(sig, frc) ==
    IF sig = "unbound" THEN "nenhum"
    ELSE IF sig = "Sim"
    THEN IF frc \in {"Moderada", "Forte", "Muito forte"} THEN "verde"
         ELSE IF frc = "Fraca" THEN "verde_claro"
         ELSE "nenhum"
    ELSE "nenhum"

\* gerar_heatmap: sns.heatmap takes the colour limits of the data with
\* np.nanmin / np.nanmax, which raise ValueError on a table without cells.
HeatmapFalha(t) == Tamanho(t) = 0

Pastas == {"heatmaps_total", "heatmaps_linha", "heatmaps_coluna"}

\* The cells written into a sheet for table t, by position.
Celulas(t, fmt) ==
    [c \in (1..Linhas(t)) \X (1..Colunas(t)) |->
        [valor |-> t.cel[<<Ordenado(t.lin)[c[1]], Ordenado(t.col)[c[2]]>>],
         fmt |-> fmt]]

\* to_excel into the writer: a sheet name already in the workbook is
\* written into again, a new one is added.
EscreverAba(abas, nome, titulo, cel) ==
    LET antigas == IF nome \in DOMAIN abas THEN abas[nome].cel ELSE SemAbas
    IN  [n \in (DOMAIN abas) \cup {nome} |->
            IF n = nome THEN [titulo |-> titulo, cel |-> cel @@ antigas]
            ELSE abas[n]]

\* ---------------------------------------------------------------- actions
InitComum ==
    /\ lote = "executando"
    /\ arquivo = 1
    /\ estado = [f \in 1..NumArquivos |-> "pendente"]
    /\ pc = "modulo"
    /\ df = SemDf
    /\ par = 0
    /\ p_vals_chi2 = <<>>
    /\ info_chi2 = <<>>
    /\ p_adj_chi2 = <<>>
    /\ idx_c = 0
    /\ resultados_consolidados = <<>>
    /\ significancia = "unbound"
    /\ forca = "unbound"
    /\ sheets = SemAbas
    /\ heatmaps = {}
    /\ resumo = SemResumo
    /\ chamada = SemChamada

Init == entrada = "dados" /\ InitComum

InitNomes == entrada = "nomes" /\ InitComum

\* The loop at module level calls gerar_crosstables(arquivo); lines 137-160
\* read the CSV, drop its first column and start the workbook and the lists.
Carregar ==
    /\ lote = "executando" /\ pc = "modulo" /\ arquivo <= NumArquivos
    /\ \E csv \in Csvs(entrada) :
          df' = [colunas |-> Tail(csv.colunas),
                 linhas |-> [r \in 1..Len(csv.linhas) |-> Tail(csv.linhas[r])]]
    /\ estado' = [estado EXCEPT ![arquivo] = "processando"]
    /\ pc' = "pass1"
    /\ par' = 1
    /\ p_vals_chi2' = <<>> /\ info_chi2' = <<>> /\ resultados_consolidados' = <<>>
    /\ UNCHANGED <<entrada, lote, arquivo, p_adj_chi2, idx_c, significancia, forca,
                   sheets, heatmaps, resumo, chamada>>

\* pd.read_csv raises on a file it cannot read or parse; nothing catches it,
\* neither in gerar_crosstables nor around the call at module level.
CarregarFalha ==
    /\ lote = "executando" /\ pc = "modulo" /\ arquivo <= NumArquivos
    /\ estado' = [estado EXCEPT ![arquivo] = "falhou"]
    /\ lote' = "abortado"
    /\ pc' = "excecao"
    /\ UNCHANGED <<entrada, arquivo, locais, saidas, chamada>>

\* Step 1, one iteration: the pair's table and, when it has cells, its test.
Pass1Iter ==
    /\ pc = "pass1" /\ par <= Len(Pares(df))
    /\ LET col1 == Pares(df)[par][1]
           col2 == Pares(df)[par][2]
           tabela == Tabela(df, col1, col2)
       IN  IF Tamanho(tabela) > 0
           THEN \E p_chi \in PValores(Chi2(tabela), GrausLiberdade(tabela)) :
                    /\ p_vals_chi2' = Append(p_vals_chi2, p_chi)
                    /\ info_chi2' = Append(info_chi2,
                          [col1 |-> df.colunas[col1], col2 |-> df.colunas[col2],
                           tabela |-> tabela, chi2 |-> Chi2(tabela),
                           p_chi |-> p_chi, dof |-> GrausLiberdade(tabela)])
           ELSE UNCHANGED <<p_vals_chi2, info_chi2>>
    /\ par' = par + 1
    /\ UNCHANGED <<entrada, lote, arquivo, estado, pc, df, p_adj_chi2, idx_c,
                   resultados_consolidados, significancia, forca, saidas, chamada>>

\* Step 2: the correction of all collected p-values, then idx_c = 0.
Corrigir ==
    /\ pc = "pass1" /\ par > Len(Pares(df))
    /\ p_adj_chi2' = CorrigirPValores(p_vals_chi2)
    /\ idx_c' = 0
    /\ pc' = "pass2"
    /\ par' = 1
    /\ UNCHANGED <<entrada, lote, arquivo, estado, df, p_vals_chi2, info_chi2,
                   resultados_consolidados, significancia, forca, saidas, chamada>>

\* The statistics block of step 3 (lines 199-213) for a pair with table
\* tabela: the next entry of info_chi2 and of p_adj_chi2, by idx_c.
Estatisticas(col1, col2, tabela) ==
    LET info == info_chi2[idx_c + 1]
        p_chi_aj == p_adj_chi2[idx_c + 1]
        n_total == Total(tabela)
        v_cramer == calcular_v_cramer(info.chi2, n_total, Linhas(tabela), Colunas(tabela))
        frc == classificar_forca(v_cramer, Min2(Linhas(tabela), Colunas(tabela)))
        sig == IF Menor(p_chi_aj, ALPHA) THEN "Sim" ELSE "Nao"
    IN  [col1 |-> col1, col2 |-> col2, n |-> n_total, chi2 |-> info.chi2,
         dof |-> info.dof, p_aj |-> p_chi_aj, v |-> v_cramer, forca |-> frc,
         significancia |-> sig,
         recomendacao |-> gerar_recomendacao(p_chi_aj, v_cramer, n_total,
                                             Linhas(tabela), Colunas(tabela))]

\* Step 3 and 4, one iteration (lines 178-241): the statistics and the
\* three heatmaps while idx_c < len(info_chi2), then the pair's sheet.  An
\* exception of gerar_heatmap leaves the function and the module's loop.
Pass2Iter ==
    /\ pc = "pass2" /\ par <= Len(Pares(df))
    /\ LET col1 == df.colunas[Pares(df)[par][1]]
           col2 == df.colunas[Pares(df)[par][2]]
           tabela == Tabela(df, Pares(df)[par][1], Pares(df)[par][2])
           nome == NomeAba(col1, col2)
       IN  IF idx_c < Len(info_chi2)
           THEN LET e == Estatisticas(col1, col2, tabela)
                IN  /\ idx_c' = idx_c + 1
                    /\ resultados_consolidados' = Append(resultados_consolidados, e)
                    /\ significancia' = e.significancia
                    /\ forca' = e.forca
                    /\ IF HeatmapFalha(tabela)
                       THEN /\ estado' = [estado EXCEPT ![arquivo] = "falhou"]
                            /\ lote' = "abortado"
                            /\ pc' = "excecao"
                            /\ UNCHANGED <<par, saidas>>
                       ELSE /\ heatmaps' = heatmaps \cup {<<pasta, nome>> : pasta \in Pastas}
                            /\ sheets' = EscreverAba(sheets, nome, <<col1, col2>>,
                                            Celulas(tabela, Formato(e.significancia, e.forca)))
                            /\ par' = par + 1
                            /\ UNCHANGED <<estado, lote, pc, resumo>>
           ELSE /\ sheets' = EscreverAba(sheets, nome, <<col1, col2>>,
                                Celulas(tabela, Formato(significancia, forca)))
                /\ par' = par + 1
                /\ UNCHANGED <<idx_c, resultados_consolidados, significancia, forca,
                               heatmaps, estado, lote, pc, resumo>>
    /\ UNCHANGED <<entrada, arquivo, df, p_vals_chi2, info_chi2, p_adj_chi2, chamada>>

\* Step 5 (lines 244-253): the summary file and writer.close().
Resumo ==
    /\ pc = "pass2" /\ par > Len(Pares(df))
    /\ resumo' = [escrito |-> TRUE, linhas |-> resultados_consolidados]
    /\ pc' = "retorno"
    /\ UNCHANGED <<entrada, lote, arquivo, estado, locais, sheets, heatmaps, chamada>>

\* gerar_crosstables returns and the loop takes the next file, whose
\* outputs go to a folder of its own.
Retornar ==
    /\ pc = "retorno"
    /\ estado' = [estado EXCEPT ![arquivo] = "ok"]
    /\ arquivo' = arquivo + 1
    /\ pc' = "modulo"
    /\ df' = SemDf /\ par' = 0
    /\ p_vals_chi2' = <<>> /\ info_chi2' = <<>> /\ p_adj_chi2' = <<>> /\ idx_c' = 0
    /\ resultados_consolidados' = <<>>
    /\ significancia' = "unbound" /\ forca' = "unbound"
    /\ sheets' = SemAbas /\ heatmaps' = {} /\ resumo' = SemResumo
    /\ UNCHANGED <<entrada, lote, chamada>>

\* The loop over glob("csv/*.csv") is exhausted.
FimLote ==
    /\ lote = "executando" /\ pc = "modulo" /\ arquivo > NumArquivos
    /\ lote' = "concluido"
    /\ UNCHANGED <<entrada, arquivo, estado, pc, locais, saidas, chamada>>

Next ==
    \/ Carregar
    \/ CarregarFalha
    \/ Pass1Iter
    \/ Corrigir
    \/ Pass2Iter
    \/ Resumo
    \/ Retornar
    \/ FimLote

Spec == Init /\ [][Next]_vars

SpecNomes == InitNomes /\ [][Next]_vars

\* ------------------------------------------------- the helpers on their own
\* One direct call per behaviour, recorded in chamada.
\* Arguments for direct calls of the helpers.
\* V and p in hundredths; -1 stands for nan.
VDe(k) == IF k < 0 THEN NaN ELSE Sqrt(Frac(k * k, 10000))
PDe(k) == IF k < 0 THEN NaN ELSE Frac(k, 100)
VGrade == (-1)..MaxV
PAjGrade == {-1, 0, 4, 5, 6, 100}
NGrade == {0} \cup ((AMOSTRA_MIN - NDelta)..(AMOSTRA_MIN + NDelta))
PBrutoGrade == {Frac(k, 100) : k \in {0, 1, 4, 50, 100}}
Vetores == UNION {[1..n -> PBrutoGrade] : n \in 0..MaxP}

\* Two answer columns of up to MaxObs respondents, one per multiset of
\* answer combinations over three categories each.
Obs == {<<a, b>> : a \in 1..3, b \in 1..3}
CodObs(o) == o[1] * 3 + o[2]
Respostas ==
    UNION {{s \in [1..n -> Obs] : \A i \in 1..(n - 1) : CodObs(s[i]) <= CodObs(s[i + 1])} :
             n \in 0..MaxObs}

ChamarClassificar ==
    /\ chamada = SemChamada
    /\ \E vk \in VGrade, categorias \in 0..MaxCat :
          chamada' = [fn |-> "classificar_forca", vk |-> vk, categorias |-> categorias,
                      ret |-> classificar_forca(VDe(vk), categorias)]
    /\ UNCHANGED <<entrada, lote, arquivo, estado, pc, locais, saidas>>

ChamarRecomendacao ==
    /\ chamada = SemChamada
    /\ \E pk \in PAjGrade, vk \in VGrade, n \in NGrade,
          linhas \in 0..MaxCat, colunas \in 0..MaxCat :
          chamada' = [fn |-> "gerar_recomendacao", pk |-> pk, vk |-> vk, n |-> n,
                      linhas |-> linhas, colunas |-> colunas,
                      ret |-> gerar_recomendacao(PDe(pk), VDe(vk), n, linhas, colunas)]
    /\ UNCHANGED <<entrada, lote, arquivo, estado, pc, locais, saidas>>

\* Step 2 of gerar_crosstables on a vector of raw p-values.
ChamarCorretor ==
    /\ chamada = SemChamada
    /\ \E ps \in Vetores :
          chamada' = [fn |-> "multipletests", ps |-> ps, ret |-> CorrigirPValores(ps)]
    /\ UNCHANGED <<entrada, lote, arquivo, estado, pc, locais, saidas>>

\* Lines 164-166 and 203-204 on one pair of columns: the table, its
\* statistic and its V.
ChamarCramer ==
    /\ chamada = SemChamada
    /\ \E rs \in Respostas, alheio \in {Frac(0, 1), Frac(3, 16)} :
          LET tabela == Crosstab([i \in 1..Len(rs) |-> rs[i][1]],
                                 [i \in 1..Len(rs) |-> rs[i][2]])
              \* a table without cells has no statistic of its own: step 3
              \* hands calcular_v_cramer the next collected one
              chi2 == IF Tamanho(tabela) > 0 THEN Chi2(tabela) ELSE alheio
          IN  chamada' = [fn |-> "calcular_v_cramer", tabela |-> tabela, chi2 |-> chi2,
                          ret |-> calcular_v_cramer(chi2, Total(tabela),
                                                    Linhas(tabela), Colunas(tabela))]
    /\ UNCHANGED <<entrada, lote, arquivo, estado, pc, locais, saidas>>

NextPuras ==
    \/ ChamarClassificar
    \/ ChamarRecomendacao
    \/ ChamarCorretor
    \/ ChamarCramer

SpecPuras == Init /\ [][NextPuras]_vars

\* ----------------------------------------------------------------- claims
Ordem(rotulo) ==
    CASE rotulo = "Fraca" -> 1
      [] rotulo = "Moderada" -> 2
      [] rotulo = "Forte" -> 3
      [] rotulo = "Muito forte" -> 4
      [] OTHER -> 0

\* C8: classificar_forca follows the threshold table (categories <= 2:
\* 0.10 / 0.30 / 0.50; 3-4: 0.07 / 0.21 / 0.35; 5 and more: 0.06 / 0.17 /
\* 0.29; strict "<"; "Muito forte" otherwise; "Nao aplicavel" for nan), and
\* for fixed categories its label never decreases as V grows.
C8_ClassificacaoSegueTabela ==
    chamada.fn = "classificar_forca" =>
        LET k == chamada.vk
            c == chamada.categorias
            a == IF c <= 2 THEN 10 ELSE IF c <= 4 THEN 7 ELSE 6
            m == IF c <= 2 THEN 30 ELSE IF c <= 4 THEN 21 ELSE 17
            f == IF c <= 2 THEN 50 ELSE IF c <= 4 THEN 35 ELSE 29
        IN  /\ k < 0 => chamada.ret = "Nao aplicavel"
            /\ k >= 0 =>
                 /\ (k < a) <=> (chamada.ret = "Fraca")
                 /\ (a <= k /\ k < m) <=> (chamada.ret = "Moderada")
                 /\ (m <= k /\ k < f) <=> (chamada.ret = "Forte")
                 /\ (f <= k) <=> (chamada.ret = "Muito forte")
                 /\ \A j \in 0..k :
                       Ordem(classificar_forca(VDe(j), c)) <= Ordem(chamada.ret)

C8_Witness ==
    /\ chamada.fn = "classificar_forca"
    /\ chamada.vk = 21 /\ chamada.categorias = 4 /\ chamada.ret = "Forte"

TemAviso(texto) == \E i \in DOMAIN texto : texto[i] = AVISO

\* C3 as stated: the small-sample warning is appended exactly when N < 30,
\* whichever rule produced the verdict.
C3_AvisoSempreQueAmostraPequena ==
    chamada.fn = "gerar_recomendacao" =>
        (TemAviso(chamada.ret) <=> chamada.n < 30)

\* C3, amended: the warning is appended exactly when N < 30 and the verdict
\* is one of the four significant texts (V and adjusted p defined, adjusted
\* p < 0.05); never when N >= 30, never on "not applicable" or "not
\* significant".
C3_AvisoSoSeSignificativo ==
    chamada.fn = "gerar_recomendacao" =>
        (TemAviso(chamada.ret) <=>
            (chamada.n < 30 /\ chamada.vk >= 0 /\ chamada.pk >= 0 /\ chamada.pk < 5))

C3_Witness ==
    /\ chamada.fn = "gerar_recomendacao"
    /\ chamada.n = 29 /\ chamada.pk = 4 /\ chamada.vk = 30
    /\ TemAviso(chamada.ret)

\* C5: the corrector returns a vector of the input's length, aligned with
\* it, with raw <= adjusted <= 1 at every position and adjusted values in
\* the order of the raw ones; an empty input gives an empty output.
C5_CorretorBH ==
    chamada.fn = "multipletests" =>
        LET ps == chamada.ps
            aj == chamada.ret
        IN  /\ Len(aj) = Len(ps)
            /\ \A i \in 1..Len(ps) :
                  /\ aj[i].cls = "fin"
                  /\ MenorIgual(ps[i], aj[i])
                  /\ MenorIgual(aj[i], Frac(1, 1))
            /\ \A i, j \in 1..Len(ps) :
                  MenorIgual(ps[i], ps[j]) => MenorIgual(aj[i], aj[j])

C5_Witness ==
    /\ chamada.fn = "multipletests"
    /\ Len(chamada.ps) = 3
    /\ chamada.ps = <<Frac(4, 100), Frac(1, 100), Frac(4, 100)>>
    /\ chamada.ret = <<Frac(4, 100), Frac(3, 100), Frac(4, 100)>>

\* C9: Cramer's V of a contingency table is undefined exactly when
\* min(r, k) <= 1 or n = 0, and lies in [0, 1] whenever it is defined.
C9_VCramerDefinidoELimitado ==
    chamada.fn = "calcular_v_cramer" =>
        LET t == chamada.tabela
            v == chamada.ret
        IN  /\ isnan(v) <=> (Min2(Linhas(t), Colunas(t)) <= 1 \/ Total(t) = 0)
            /\ ~isnan(v) => (v.cls = "fin" /\ 0 <= v.num /\ v.num <= v.den)

C9_Witness ==
    /\ chamada.fn = "calcular_v_cramer"
    /\ Linhas(chamada.tabela) = 3 /\ Colunas(chamada.tabela) = 3
    /\ chamada.ret.cls = "fin" /\ chamada.ret.num = chamada.ret.den

\* The position of a column name, and the table of a pair given by names.
Posicao(nome) == CHOOSE c \in 1..Len(df.colunas) : df.colunas[c] = nome
TabelaDe(col1, col2) == Tabela(df, Posicao(col1), Posicao(col2))
NomesDoPar(q) == <<df.colunas[Pares(df)[q][1]], df.colunas[Pares(df)[q][2]]>>

\* C1: every consolidated row of a pair carries the chi-square statistic,
\* the degrees of freedom and the adjusted p-value computed in pass 1 from
\* the table of that same pair.
C1_LinhaComEstatisticasDoProprioPar ==
    \A i \in 1..Len(resultados_consolidados) :
        LET l == resultados_consolidados[i]
        IN  \E k \in 1..Len(info_chi2) :
                /\ info_chi2[k].col1 = l.col1 /\ info_chi2[k].col2 = l.col2
                /\ l.chi2 = info_chi2[k].chi2
                /\ l.dof = info_chi2[k].dof
                /\ l.p_aj = p_adj_chi2[k]

\* C2: a pair whose table is empty adds no raw p-value and no result row,
\* and the summary written at the end has exactly one row per pair with a
\* non-empty table.
C2_SemLinhaParaParVazio ==
    /\ \A k \in 1..Len(info_chi2) : Tamanho(info_chi2[k].tabela) > 0
    /\ \A i \in 1..Len(resultados_consolidados) :
          Tamanho(TabelaDe(resultados_consolidados[i].col1,
                           resultados_consolidados[i].col2)) > 0
    /\ resumo.escrito =>
          LET naoVazios == {q \in 1..Len(Pares(df)) :
                              Tamanho(Tabela(df, Pares(df)[q][1], Pares(df)[q][2])) > 0}
          IN  /\ Len(resumo.linhas) = Cardinality(naoVazios)
              /\ {<<resumo.linhas[i].col1, resumo.linhas[i].col2>> :
                     i \in 1..Len(resumo.linhas)} = {NomesDoPar(q) : q \in naoVazios}

\* C4: when the batch has ended, every file other than the failing one has
\* been processed to completion.
C4_FalhaIsolaOArquivo ==
    lote # "executando" => \A f \in 1..NumArquivos : estado[f] \in {"ok", "falhou"}

\* C7: rows with a missing answer are counted under a fallback category, so
\* the sample size of every pair is the number of rows of the dataset.
C7_NIgualNumeroDeLinhas ==
    /\ \A k \in 1..Len(info_chi2) : Total(info_chi2[k].tabela) = Len(df.linhas)
    /\ \A i \in 1..Len(resultados_consolidados) :
          resultados_consolidados[i].n = Len(df.linhas)

\* The highlight the pair at position q is due: from its own pass-1 entry
\* and its own table when a result row was produced for it, none otherwise.
DestaqueDevido(q) ==
    LET nomes == NomesDoPar(q)
        t == Tabela(df, Pares(df)[q][1], Pares(df)[q][2])
        temLinha == \E i \in 1..Len(resultados_consolidados) :
                        /\ resultados_consolidados[i].col1 = nomes[1]
                        /\ resultados_consolidados[i].col2 = nomes[2]
        ks == {k \in 1..Len(info_chi2) :
                 info_chi2[k].col1 = nomes[1] /\ info_chi2[k].col2 = nomes[2]}
    IN  IF ~temLinha THEN "nenhum"
        ELSE IF ks = {} THEN "indefinido"
        ELSE LET k == CHOOSE x \in ks : TRUE
                 v == calcular_v_cramer(info_chi2[k].chi2, Total(t), Linhas(t), Colunas(t))
                 rotulo == classificar_forca(v, Min2(Linhas(t), Colunas(t)))
                 significativo == Menor(p_adj_chi2[k], ALPHA)
             IN  IF significativo /\ rotulo \in {"Moderada", "Forte", "Muito forte"}
                 THEN "verde"
                 ELSE IF significativo /\ rotulo = "Fraca" THEN "verde_claro"
                 ELSE "nenhum"

C10_UmArtefatoPorPar ==
    /\ \A p \in 1..Len(Pares(df)), q \in 1..Len(Pares(df)) :
          p # q => NomeAba(NomesDoPar(p)[1], NomesDoPar(p)[2])
                     # NomeAba(NomesDoPar(q)[1], NomesDoPar(q)[2])
    /\ pc = "retorno" =>
          /\ Cardinality(DOMAIN sheets) = Len(Pares(df))
          /\ Cardinality(heatmaps) = 3 * Len(resultados_consolidados)

=============================================================================
